---- MODULE Spec2Model ----
(***************************************************************************)
(* Model of tools/build_datasets.py: the dataset builders (Bank of Canada, *)
(* Shiller equities / CPI, FRED rate CSVs, StatCan FX), the validation     *)
(* gate and writer write_json, and the command dispatch of main.           *)
(*                                                                         *)
(* Numbers.  A Python float is modelled as an exact rational n/d (d > 0,   *)
(* lowest terms) or as +inf, -inf or nan, so that finiteness, sign and the *)
(* compounding recurrences are decided exactly.  Rounding error of the     *)
(* binary floats is not modelled.                                          *)
(*                                                                         *)
(* Loops over rows are iterated by halving the index range (the loop body  *)
(* is applied to the rows in order lo..hi, left half first), which keeps   *)
(* the evaluation depth logarithmic for series of a thousand rows.         *)
(***************************************************************************)
EXTENDS Integers, Sequences, FiniteSets, TLC

VARIABLES
    pc,       \* position in main: "idle", "build", "write", "done", "failed"
    cmd,      \* the parsed command line (args)
    step,     \* build_all: number of the pipeline being processed (1..6), else 0
    input,    \* the raw inputs read so far by this invocation
    series,   \* the series returned by the last builder, passed to write_json
    dirs,     \* directories that exist
    files,    \* path -> envelope stored at that path, or NoFile
    stdout,   \* the lines printed so far
    err,      \* the exception that ended the invocation, or "none"
    fn,       \* pure-function checks: the function applied, or "none"
    arg,      \* pure-function checks: its argument
    ret       \* pure-function checks: its result

vars == <<pc, cmd, step, input, series, dirs, files, stdout, err, fn, arg, ret>>

mainVars == <<pc, cmd, step, input, series, dirs, files, stdout, err>>

fnVars == <<fn, arg, ret>>

(***************************************************************************)
(* Floats                                                                  *)
(***************************************************************************)
Abs(x) == IF x < 0 THEN -x ELSE x

RECURSIVE Gcd(_, _)
Gcd(a, b) == IF b = 0 THEN a ELSE Gcd(b, a % b)

\* the float n/d, d > 0, in lowest terms
Rat(n, d) ==
    LET g == Gcd(Abs(n), d)
    IN  [k |-> "fin", n |-> n \div g, d |-> d \div g]

Num(n) == [k |-> "fin", n |-> n, d |-> 1]

PosInf == [k |-> "inf", n |-> 1, d |-> 0]

NegInf == [k |-> "inf", n |-> -1, d |-> 0]

NaN == [k |-> "nan", n |-> 0, d |-> 0]

\* cells that are not numbers: a text cell, an empty cell, the FRED "." cell
TextCell == [k |-> "text", n |-> 0, d |-> 0]

EmptyCell == [k |-> "empty", n |-> 0, d |-> 0]

DotCell == [k |-> "dot", n |-> 0, d |-> 0]

IsNum(c) == c.k \in {"fin", "inf", "nan"}

\* math.isfinite
IsFinite(v) == v.k = "fin"

IsNaN(v) == v.k = "nan"

Sign(v) == IF v.n > 0 THEN 1 ELSE IF v.n < 0 THEN -1 ELSE 0

\* v > 0 and v <= 0 as Python compares floats (both False for nan)
GtZero(v) == v.k # "nan" /\ v.n > 0

LeZero(v) == v.k # "nan" /\ v.n <= 0

FAdd(a, b) ==
    IF a.k = "nan" \/ b.k = "nan" THEN NaN
    ELSE IF a.k = "inf" /\ b.k = "inf" THEN (IF a.n = b.n THEN a ELSE NaN)
    ELSE IF a.k = "inf" THEN a
    ELSE IF b.k = "inf" THEN b
    ELSE Rat(a.n * b.d + b.n * a.d, a.d * b.d)

FMul(a, b) ==
    IF a.k = "nan" \/ b.k = "nan" THEN NaN
    ELSE IF a.k = "inf" \/ b.k = "inf"
         THEN (IF Sign(a) * Sign(b) = 0 THEN NaN
               ELSE IF Sign(a) * Sign(b) > 0 THEN PosInf ELSE NegInf)
    ELSE Rat(a.n * b.n, a.d * b.d)

\* a / b for b > 0 (the only divisions the program performs on floats)
FDivPos(a, b) ==
    IF a.k = "nan" THEN NaN
    ELSE IF b.k = "inf" THEN (IF a.k = "inf" THEN NaN ELSE Num(0))
    ELSE IF a.k = "inf" THEN a
    ELSE Rat(a.n * b.d, a.d * b.n)

\* a < b on finite floats
FLt(a, b) == a.n * b.d < b.n * a.d

(***************************************************************************)
(* Month keys "YYYY-MM"                                                    *)
(***************************************************************************)
\* f"{year:04d}-{m:02d}": the key is kept as its two numbers; the year is
\* printed with at least four digits (0 <= year <= 99999 here)
YmKey(year, m) == [y |-> year, m |-> m]

\* a < b as Python compares the two strings.  Four-digit years compare as
\* numbers; a five-digit year against a four-digit one compares its first
\* four digits, and on a tie the "-" of the shorter key sorts first.
StrLt(a, b) ==
    LET a5 == a.y >= 10000
        b5 == b.y >= 10000
    IN  IF a5 = b5 THEN a.y < b.y \/ (a.y = b.y /\ a.m < b.m)
        ELSE IF b5 THEN a.y <= b.y \div 10
        ELSE a.y \div 10 < b.y

StrLe(a, b) == a = b \/ StrLt(a, b)

\* _to_month(dt): the month key of a timestamp
ToMonth(dt) == YmKey(dt.y, dt.m)

(***************************************************************************)
(* Results of a builder: the series it returns, or the exception it raised *)
(***************************************************************************)
Returned(s) == [err |-> "none", series |-> s]

Raised(e) == [err |-> e, series |-> <<>>]

Point(date, value) == [date |-> date, value |-> value]

\* df.sort_values(col) with the default kind="quicksort", which is not
\* stable: rows with equal keys may come out in either order.  tie names
\* the outcome: "stable" keeps equal keys in source order, "reversed"
\* reverses them.
TieOrders == {"stable", "reversed"}

NaT == [y |-> 0, m |-> 0, d |-> 0]

\* a < b on timestamps
TsLt(a, b) ==
    a.y < b.y \/ (a.y = b.y /\ (a.m < b.m \/ (a.m = b.m /\ a.d < b.d)))

\* a < b on the column the frame is sorted by: "ym" (month-key strings),
\* "date" (timestamps) or "month" (the month key of the timestamp)
ColLt(col, a, b) ==
    CASE col = "ym" -> StrLt(a.ym, b.ym)
      [] col = "date" -> TsLt(a.date, b.date)
      [] col = "month" -> StrLt(ToMonth(a.date), ToMonth(b.date))

SortValues(rows, col, tie) ==
    LET n == Len(rows)
        at == [i \in 1..n |-> [row |-> rows[i], idx |-> i]]
        Before(a, b) ==
            \/ ColLt(col, a.row, b.row)
            \/ tie = "reversed" /\ ~ColLt(col, b.row, a.row) /\ a.idx > b.idx
        sorted == SortSeq(at, Before)
    IN  [i \in 1..n |-> sorted[i].row]

(***************************************************************************)
(* Value coercion                                                          *)
(***************************************************************************)
\* _ensure_finite(x): the float, or None (modelled as NaN, which dropna
\* removes) when float(x) raises or the float is not finite
EnsureFinite(c) == IF IsNum(c) /\ IsFinite(c) THEN c ELSE NaN

\* pd.to_numeric(col, errors="coerce"): cells that do not parse become NaN;
\* a cell that reads "inf" parses to the float inf
ToNumeric(c) == IF IsNum(c) THEN c ELSE NaN

(***************************************************************************)
(* Header location                                                         *)
(***************************************************************************)
Min(a, b) == IF a < b THEN a ELSE b

\* a cell of the sheet read with header=None: a text, a number, or empty
\* (NaN)
TextC(s) == [t |-> "text", s |-> s, v |-> 0]

NumC(v) == [t |-> "num", s |-> "", v |-> v]

NanC == [t |-> "nan", s |-> "", v |-> 0]

\* s.strip().lower() on the texts that occur in the sheets
StripLower(s) ==
    CASE s \in {"Date", " Date ", "DATE", "date"} -> "date"
      [] s \in {"P", " P", "p"} -> "p"
      [] s \in {"D", "d"} -> "d"
      [] s \in {"CPI", " Cpi ", "cpi"} -> "cpi"
      [] OTHER -> s

\* lines 143 and 449: [str(val).strip().lower() for val in row.values if
\* pd.notna(val)]; the digits of a number are none of the marker words
RowValues(row) ==
    {IF row[c].t = "text" THEN StripLower(row[c].s) ELSE "number" :
        c \in {c \in 1..Len(row) : row[c].t # "nan"}}

\* lines 146-150
QualifiesTR(row) ==
    "date" \in RowValues(row) /\ "p" \in RowValues(row) /\ "d" \in RowValues(row)

\* lines 452-455
QualifiesCPI(row) == "date" \in RowValues(row) /\ "cpi" \in RowValues(row)

PREVIEW_ROWS == 50

PREVIEW_SHOWN == 15

\* the whole sheet, however long
PreviewAll(sheet) == sheet

\* pd.read_excel(..., header=None, nrows=50)
Preview(sheet) == SubSeq(sheet, 1, Min(PREVIEW_ROWS, Len(sheet)))

\* lines 160 and 465: str(val) if pd.notna(val) else ""
RenderRow(row) == [c \in 1..Len(row) |-> IF row[c].t = "nan" THEN TextC("") ELSE row[c]]

\* lines 158-161 and 463-466: the first 15 rows of the preview, as lists
First15Rows(df_preview) ==
    [i \in 1..Min(PREVIEW_SHOWN, Len(df_preview)) |-> RenderRow(df_preview[i])]

Located(idx) == [err |-> "none", header_row |-> idx, shown |-> <<>>]

NotLocated(shown) == [err |-> "HeaderNotFound", header_row |-> -1, shown |-> shown]

\* lines 138-166: the index of the first row of the preview that holds Date,
\* P and D, or the error with the first 15 rows
LocateHeaderTR(sheet) ==
    LET df_preview == Preview(sheet)
        Hit(i) == QualifiesTR(df_preview[i])
        hits == SelectSeq([i \in 1..Len(df_preview) |-> i], Hit)
    IN  IF hits = <<>> THEN NotLocated(First15Rows(df_preview))
        ELSE Located(Head(hits) - 1)

\* lines 435-472 of build_cpi_shiller: the same for Date and CPI
LocateHeaderCPI(sheet) ==
    LET df_preview == Preview(sheet)
        Hit(i) == QualifiesCPI(df_preview[i])
        hits == SelectSeq([i \in 1..Len(df_preview) |-> i], Hit)
    IN  IF hits = <<>> THEN NotLocated(First15Rows(df_preview))
        ELSE Located(Head(hits) - 1)

\* a line of the Valet response: the text of its first field, whether the
\* fields are double-quoted, the separator after the first field, whether
\* the line is padded with blanks, and its number in the text
TextLine(first, quoted, sep, pad, no) ==
    [first |-> first, quoted |-> quoted, sep |-> sep, pad |-> pad, no |-> no]

\* lines 76-78: s = line.strip().strip('"') starts with one of  date,
\* date","  "date",  date;  -- the blanks and then the leading quotes have
\* been stripped, so s never starts with a quote
HeaderLine(line) ==
    \/ line.first = "date" /\ ~line.quoted /\ line.sep = ","
    \/ line.first = "date" /\ line.quoted /\ line.sep = ","
    \/ FALSE
    \/ line.first = "date" /\ ~line.quoted /\ line.sep = ";"

BOC_HEADER_LINES == 200

\* lines 72-85 of fetch_boc_csv: the index of the first of the first 200
\* lines that starts the table, or the error with the first 15 lines
LocateHeaderBoc(lines) ==
    LET window == SubSeq(lines, 1, Min(BOC_HEADER_LINES, Len(lines)))
        Hit(i) == HeaderLine(window[i])
        hits == SelectSeq([i \in 1..Len(window) |-> i], Hit)
    IN  IF hits = <<>>
        THEN NotLocated(SubSeq(lines, 1, Min(PREVIEW_SHOWN, Len(lines))))
        ELSE Located(Head(hits) - 1)

(***************************************************************************)
(* Shiller: fractional dates                                               *)
(***************************************************************************)
\* int(x) for the float n/d: truncation toward zero
IntTrunc(n, d) == IF n >= 0 THEN n \div d ELSE -((-n) \div d)

\* round(p/q), q > 0: to the nearest integer, a tie to the even one
RoundHalfEven(p, q) ==
    LET fl == p \div q
        r2 == 2 * (p % q)
    IN  IF r2 < q THEN fl
        ELSE IF r2 > q THEN fl + 1
        ELSE IF fl % 2 = 0 THEN fl ELSE fl + 1

NoClamp(m) == m

Clamp1To12(m) == IF m < 1 THEN 1 ELSE IF m > 12 THEN 12 ELSE m

\* frac_to_ym(yf) of shiller_parse_monthly_tr.  int(yf) raises on inf and
\* nan (OverflowError, ValueError).
FracToYm(yf) ==
    IF yf.k # "fin" THEN [raised |-> TRUE, y |-> 0, m |-> 0]
    ELSE LET year == IntTrunc(yf.n, yf.d)
             fn_ == yf.n - year * yf.d          \* frac = fn_ / yf.d
             m1 == RoundHalfEven(fn_ * 100, yf.d)
             m2 == Clamp1To12(RoundHalfEven(fn_ * 12, yf.d) + 1)
         IN  [raised |-> FALSE, y |-> year,
              m |-> IF m1 < 1 \/ m1 > 12 THEN m2 ELSE m1]

\* frac_to_ym(yf) of build_cpi_shiller
FracToYmCpi(yf) ==
    IF yf.k # "fin" THEN [raised |-> TRUE, y |-> 0, m |-> 0]
    ELSE LET year == IntTrunc(yf.n, yf.d)
             fn_ == yf.n - year * yf.d
             m1 == RoundHalfEven(fn_ * 100, yf.d)
             m2 == Clamp1To12(RoundHalfEven(fn_ * 12, yf.d) + 1)
         IN  [raised |-> FALSE, y |-> year,
              m |-> IF m1 < 1 \/ m1 > 12 THEN m2 ELSE m1]

(***************************************************************************)
(* Shiller: equities total return                                          *)
(***************************************************************************)
SHILLER_MIN_ROWS == 1000

\* lines 186-195: Date, P, D coerced to numbers, rows with a NaN dropped
ShillerCleanTR(rows) ==
    LET num == [i \in 1..Len(rows) |->
                   [date_frac |-> ToNumeric(rows[i].date_frac),
                    P |-> ToNumeric(rows[i].P),
                    D |-> ToNumeric(rows[i].D)]]
        Keep(r) == ~IsNaN(r.date_frac) /\ ~IsNaN(r.P) /\ ~IsNaN(r.D)
    IN  SelectSeq(num, Keep)

\* lines 227-228: the month key of every row, then sort_values("ym")
KeyLt(a, b) == StrLt(a.ym, b.ym)

SortByYm(rows, tie) == SortValues(rows, "ym", tie)

\* the loop body with prev_p left at the first price
TRStepStalePrev(st, row) ==
    IF st.first
    THEN [st EXCEPT !.first = FALSE, !.prev_p = row.P,
                    !.tr = Append(st.tr, Point(row.ym, st.tr_val))]
    ELSE IF LeZero(st.prev_p)
    THEN [st EXCEPT !.raised = TRUE]
    ELSE LET v == FMul(st.tr_val, FDivPos(FAdd(row.P, row.D), st.prev_p))
         IN  [st EXCEPT !.tr_val = v, !.tr = Append(st.tr, Point(row.ym, v))]

\* one pass of the loop body, lines 235-246, on the loop state
\* st = [raised, first (prev_p is None), prev_p, tr_val, tr]
TRStep(st, row) ==
    IF st.first
    THEN [st EXCEPT !.first = FALSE, !.prev_p = row.P,
                    !.tr = Append(st.tr, Point(row.ym, st.tr_val))]
    ELSE IF LeZero(st.prev_p)
    THEN [st EXCEPT !.raised = TRUE]
    ELSE LET v == FMul(st.tr_val, FDivPos(FAdd(row.P, row.D), st.prev_p))
         IN  [st EXCEPT !.tr_val = v, !.prev_p = row.P,
                        !.tr = Append(st.tr, Point(row.ym, v))]

\* the loop of lines 234-246 over rows[lo..hi]; a raise ends it
RECURSIVE TRLoop(_, _, _, _)
TRLoop(rows, st, lo, hi) ==
    IF st.raised \/ lo > hi THEN st
    ELSE IF lo = hi THEN TRStep(st, rows[lo])
    ELSE LET mid == (lo + hi) \div 2
             left == TRLoop(rows, st, lo, mid)
         IN  IF left.raised THEN left ELSE TRLoop(rows, left, mid + 1, hi)

\* lines 231-246: tr, or the raise on a non-positive prior price
TRCompound(rows) ==
    TRLoop(rows,
           [raised |-> FALSE, first |-> TRUE, prev_p |-> Num(0),
            tr_val |-> Num(1), tr |-> <<>>],
           1, Len(rows))

\* lines 249-252: out[date] = value for every point in order (the last
\* write to a key wins), then the keys in sorted order
DateLt(a, b) == StrLt(a.date, b.date)

\* the mapping filled only for keys it does not hold yet
DedupLastKeepsFirst(tr) ==
    LET s == SortSeq(tr, DateLt)
        n == Len(s)
        at == [i \in 1..n |-> [date |-> s[i].date, value |-> s[i].value, i |-> i]]
        Keep(e) == e.i = 1 \/ s[e.i - 1].date # e.date
        kept == SelectSeq(at, Keep)
    IN  [i \in 1..Len(kept) |-> Point(kept[i].date, kept[i].value)]

DedupLast(tr) ==
    LET s == SortSeq(tr, DateLt)
        n == Len(s)
        at == [i \in 1..n |-> [date |-> s[i].date, value |-> s[i].value, i |-> i]]
        Keep(e) == e.i = n \/ s[e.i + 1].date # e.date
        kept == SelectSeq(at, Keep)
    IN  [i \in 1..Len(kept) |-> Point(kept[i].date, kept[i].value)]

\* lines 227-257 on the cleaned rows tmp: month keys, sort, compounding,
\* de-duplication
ShillerTRSeries(tmp, tie) ==
    LET ym == [i \in 1..Len(tmp) |-> FracToYm(tmp[i].date_frac)]
    IN  IF \E i \in 1..Len(tmp) : ym[i].raised
        THEN Raised("OverflowError")
        ELSE LET keyed == [i \in 1..Len(tmp) |->
                              [ym |-> YmKey(ym[i].y, ym[i].m),
                               P |-> tmp[i].P, D |-> tmp[i].D]]
                 st == TRCompound(SortByYm(keyed, tie))
             IN  IF st.raised THEN Raised("InvalidPriorPrice")
                 ELSE IF DedupLast(st.tr) = <<>> THEN Raised("EmptySeries")
                 ELSE Returned(DedupLast(st.tr))

\* shiller_parse_monthly_tr(xls_path) on a workbook
ShillerParseMonthlyTR(book, tie) ==
    IF ~book.exists THEN Raised("FileNotFound")
    ELSE IF LocateHeaderTR(book.sheet).err # "none" THEN Raised("HeaderNotFound")
    ELSE LET tmp == ShillerCleanTR(book.rows)
         IN  IF Len(tmp) = 0 THEN Raised("NoUsableRows")
             ELSE IF Len(tmp) < SHILLER_MIN_ROWS THEN Raised("InsufficientRows")
             ELSE ShillerTRSeries(tmp, tie)

\* build_equities_shiller
BuildEquitiesShiller(book, tie) == ShillerParseMonthlyTR(book, tie)

(***************************************************************************)
(* Shiller: CPI                                                            *)
(***************************************************************************)
\* lines 489-495
ShillerCleanCPI(rows) ==
    LET num == [i \in 1..Len(rows) |->
                   [date_frac |-> ToNumeric(rows[i].date_frac),
                    CPI |-> ToNumeric(rows[i].CPI)]]
        Keep(r) == ~IsNaN(r.date_frac) /\ ~IsNaN(r.CPI)
    IN  SelectSeq(num, Keep)

\* lines 521-527: out[ym] is set only when ym is not yet a key (the first
\* write to a key wins), then the keys in sorted order
\* the mapping overwritten by every row
DedupFirstKeepsLast(rows) ==
    LET s == SortSeq(rows, KeyLt)
        n == Len(s)
        at == [i \in 1..n |-> [ym |-> s[i].ym, CPI |-> s[i].CPI, i |-> i]]
        Keep(e) == e.i = n \/ s[e.i + 1].ym # e.ym
        kept == SelectSeq(at, Keep)
    IN  [i \in 1..Len(kept) |-> Point(kept[i].ym, kept[i].CPI)]

DedupFirst(rows) ==
    LET s == SortSeq(rows, KeyLt)
        n == Len(s)
        at == [i \in 1..n |-> [ym |-> s[i].ym, CPI |-> s[i].CPI, i |-> i]]
        Keep(e) == e.i = 1 \/ s[e.i - 1].ym # e.ym
        kept == SelectSeq(at, Keep)
    IN  [i \in 1..Len(kept) |-> Point(kept[i].ym, kept[i].CPI)]

\* lines 516-532 on the cleaned rows tmp: month keys, sort, de-duplication
CpiSeries(tmp, tie) ==
    LET ym == [i \in 1..Len(tmp) |-> FracToYmCpi(tmp[i].date_frac)]
    IN  IF \E i \in 1..Len(tmp) : ym[i].raised
        THEN Raised("OverflowError")
        ELSE LET keyed == [i \in 1..Len(tmp) |->
                              [ym |-> YmKey(ym[i].y, ym[i].m), CPI |-> tmp[i].CPI]]
                 series_out == DedupFirst(SortByYm(keyed, tie))
             IN  IF series_out = <<>> THEN Raised("EmptySeries")
                 ELSE Returned(series_out)

\* build_cpi_shiller(xls_path) on a workbook
BuildCpiShiller(book, tie) ==
    IF ~book.exists THEN Raised("FileNotFound")
    ELSE IF LocateHeaderCPI(book.sheet).err # "none" THEN Raised("HeaderNotFound")
    ELSE LET tmp == ShillerCleanCPI(book.rows)
         IN  IF Len(tmp) = 0 THEN Raised("NoUsableRows")
             ELSE CpiSeries(tmp, tie)

(***************************************************************************)
(* Monthly aggregation (pandas groupby on the month)                       *)
(***************************************************************************)
RowMonthLt(a, b) == StrLt(ToMonth(a.date), ToMonth(b.date))

\* the frame left in source order
NoSort(rows, tie) == rows

\* df.sort_values("date")
SortByDate(rows, tie) == SortValues(rows, "date", tie)

\* the sum of the values of rows[lo..hi]
RECURSIVE SumValues(_, _, _)
SumValues(rows, lo, hi) ==
    IF lo > hi THEN Num(0)
    ELSE IF lo = hi THEN rows[lo].value
    ELSE LET mid == (lo + hi) \div 2
         IN  FAdd(SumValues(rows, lo, mid), SumValues(rows, mid + 1, hi))

MeanOf(rows, lo, hi) == FDivPos(SumValues(rows, lo, hi), Num(hi - lo + 1))

LastOf(rows, lo, hi) == rows[hi].value

\* df.groupby("month", as_index=False)["value"].mean() / .last(): the
\* groups come out in ascending month order, and the rows of a group keep
\* the order they have in df.  One point per group.
GroupByMonth(rows, how) ==
    LET s == SortSeq(rows, RowMonthLt)
        n == Len(s)
        at == [i \in 1..n |-> [date |-> s[i].date, i |-> i]]
        IsStart(e) == e.i = 1 \/ ToMonth(s[e.i - 1].date) # ToMonth(e.date)
        starts == SelectSeq(at, IsStart)
        g == Len(starts)
        Hi(j) == IF j < g THEN starts[j + 1].i - 1 ELSE n
    IN  [j \in 1..g |->
            Point(ToMonth(starts[j].date),
                  IF how = "mean" THEN MeanOf(s, starts[j].i, Hi(j))
                  ELSE LastOf(s, starts[j].i, Hi(j)))]

(***************************************************************************)
(* Bank of Canada                                                          *)
(***************************************************************************)
\* lines 105-109: dates parsed (errors="coerce"), values through
\* _ensure_finite, rows without a date or a value dropped
BocClean(rows) ==
    LET num == [i \in 1..Len(rows) |->
                   [date |-> rows[i].date, value |-> EnsureFinite(rows[i].value)]]
        Keep(r) == r.date # NaT /\ ~IsNaN(r.value)
    IN  SelectSeq(num, Keep)

\* boc_to_monthly: resp is the Valet response (fetch_boc_csv and the
\* column check of line 102 are summarised by resp.http, resp.lines and
\* resp.cols; resp.rows are the rows under the header)
BocToMonthly(resp, agg, tie) ==
    IF ~resp.http THEN Raised("HTTPError")
    ELSE IF LocateHeaderBoc(resp.lines).err # "none" THEN Raised("HeaderNotFound")
    ELSE IF ~resp.cols THEN Raised("ColumnNotFound")
    ELSE LET df == BocClean(resp.rows)
         IN  IF Len(df) = 0 THEN Raised("NoUsableRows")
             ELSE IF agg = "mean" THEN Returned(GroupByMonth(df, "mean"))
             ELSE Returned(GroupByMonth(SortByDate(df, tie), "last"))

(***************************************************************************)
(* FRED rate CSVs                                                          *)
(***************************************************************************)
\* lines 366-375 of read_fred_csv: "." rows filtered, then coercion, dropna
\* and the sort by date
FredClean(rows) ==
    LET num == [i \in 1..Len(rows) |->
                   [date |-> rows[i].date, value |-> ToNumeric(rows[i].value)]]
        Keep(r) == r.date # NaT /\ ~IsNaN(r.value)
    IN  SelectSeq(num, Keep)

NotDot(r) == r.value # DotCell

\* str(col).strip().lower() on the column names that occur in the files
ColLower(col) ==
    CASE col \in {"DATE", " Date ", "date"} -> "date"
      [] col \in {"observation_date", "OBSERVATION_DATE"} -> "observation_date"
      [] col = "VALUE" -> "value"
      [] col = "DTB3" -> "dtb3"
      [] OTHER -> col

IsDateName(col) == ColLower(col) \in {"date", "observation_date"}

NoCol == ""

\* the loop of lines 346-353 over columns[i..]: a date column is noted
\* and the loop goes on; any other column becomes the value column and
\* ends the loop.  st = [date_col, value_col]
RECURSIVE ColumnLoop(_, _, _)
ColumnLoop(columns, st, i) ==
    IF i > Len(columns) THEN st
    ELSE IF IsDateName(columns[i])
    THEN ColumnLoop(columns, [st EXCEPT !.date_col = columns[i]], i + 1)
    ELSE [st EXCEPT !.value_col = columns[i]]

\* lines 343-360: the date and value columns of the header, or the error
ResolveFredColumns(columns) ==
    LET st == ColumnLoop(columns, [date_col |-> NoCol, value_col |-> NoCol], 1)
        value_col == IF st.value_col = NoCol /\ Len(columns) >= 2
                     THEN columns[2] ELSE st.value_col
    IN  IF st.date_col = NoCol \/ value_col = NoCol
        THEN [err |-> "ColumnNotFound", date_col |-> NoCol, value_col |-> NoCol]
        ELSE [err |-> "none", date_col |-> st.date_col, value_col |-> value_col]

\* read_fred_csv(csv_path): the frame, or the exception; csv.rows are the
\* cells of the two columns resolved
ReadFredCsv(csv, tie) ==
    IF ~csv.exists THEN [err |-> "FileNotFound", df |-> <<>>]
    ELSE IF ResolveFredColumns(csv.columns).err # "none"
    THEN [err |-> "ColumnNotFound", df |-> <<>>]
    ELSE LET nodot == SelectSeq(csv.rows, NotDot)
         IN  IF Len(nodot) = 0 THEN [err |-> "NoUsableRows", df |-> <<>>]
             ELSE [err |-> "none", df |-> SortByDate(FredClean(nodot), tie)]

\* the conversion without the floor at zero for non-positive yields
GrowthPow12NoFloor(y) == FAdd(Num(1), FDivPos(y, Num(100)))

\* line 398, kept as the twelfth power of 1 + monthly_return: 1 + y/100
\* for y > 0, else 1.  (The index is carried as its twelfth power, an exact
\* rational; x -> x^12 is strictly increasing on the positive reals, so
\* order, equality and the comparison with 1.0 are those of the index.)
GrowthPow12(y) ==
    IF GtZero(y) THEN FAdd(Num(1), FDivPos(y, Num(100))) ELSE Num(1)

\* one pass of the loop body, lines 405-409: index_value *= 1 +
\* monthly_return, one point appended.  st = [raised, index12, out]; the
\* body raises nothing, raised is the loop state's common field.
YieldStep(st, row) ==
    LET v == FMul(st.index12, GrowthPow12(row.value))
    IN  [st EXCEPT !.index12 = v, !.out = Append(st.out, Point(row.date, v))]

\* the loop of lines 404-409 over monthly[lo..hi]
RECURSIVE YieldLoop(_, _, _, _)
YieldLoop(monthly, st, lo, hi) ==
    IF st.raised \/ lo > hi THEN st
    ELSE IF lo = hi THEN YieldStep(st, monthly[lo])
    ELSE LET mid == (lo + hi) \div 2
             left == YieldLoop(monthly, st, lo, mid)
         IN  IF left.raised THEN left ELSE YieldLoop(monthly, left, mid + 1, hi)

\* lines 402-409: the index is seeded at 1.0 and compounded over the months
YieldCompound(monthly) ==
    YieldLoop(monthly, [raised |-> FALSE, index12 |-> Num(1), out |-> <<>>],
              1, Len(monthly)).out

\* lines 390-422 of fred_csv_to_monthly_index on the frame df
FredMonthlyIndex(df, yield_to_return, use_mean) ==
    IF yield_to_return THEN YieldCompound(GroupByMonth(df, "mean"))
    ELSE IF use_mean THEN GroupByMonth(df, "mean")
    ELSE GroupByMonth(df, "last")

\* fred_csv_to_monthly_index(csv_path, ...)
FredCsvToMonthlyIndex(csv, yield_to_return, use_mean, tie) ==
    LET r == ReadFredCsv(csv, tie)
    IN  IF r.err # "none" THEN Raised(r.err)
        ELSE Returned(FredMonthlyIndex(r.df, yield_to_return, use_mean))

BuildCashFred(csv, tie) == FredCsvToMonthlyIndex(csv, TRUE, FALSE, tie)

BuildBonds10yFred(csv, tie) == FredCsvToMonthlyIndex(csv, TRUE, FALSE, tie)

BuildGic5yProxyFred(csv, tie) == FredCsvToMonthlyIndex(csv, TRUE, FALSE, tie)

BuildUsdcadFxFred(csv, tie) == FredCsvToMonthlyIndex(csv, FALSE, TRUE, tie)

(***************************************************************************)
(* StatCan FX                                                              *)
(***************************************************************************)
\* lines 586-589
StatcanClean(rows) ==
    LET num == [i \in 1..Len(rows) |->
                   [date |-> rows[i].date, value |-> ToNumeric(rows[i].value),
                    symbol |-> rows[i].symbol]]
        Keep(r) == r.date # NaT /\ ~IsNaN(r.value)
    IN  SelectSeq(num, Keep)

IsUsd(r) == r.symbol = "USD"

HasSymbol(r) == r.symbol # ""

\* statcan_fx_csv_to_series(csv_path); an empty SYMBOL cell is ""
StatcanFxCsvToSeries(csv, tie) ==
    IF ~csv.has_symbol THEN Raised("ColumnNotFound")
    ELSE IF Len(SelectSeq(csv.rows, HasSymbol)) = 0 THEN Raised("NoUsableRows")
    ELSE IF ~csv.has_date \/ ~csv.has_value THEN Raised("ColumnNotFound")
    ELSE LET usd == SelectSeq(StatcanClean(csv.rows), IsUsd)
         IN  IF Len(usd) = 0 THEN Raised("NoUsableRows")
             ELSE Returned(GroupByMonth(SortValues(usd, "month", tie), "mean"))

(***************************************************************************)
(* write_json: the validation gate and the writer                          *)
(***************************************************************************)
MIN_POINTS == 100

\* a path is its directory (a sequence of components, <<>> for none) and
\* its file name; os.path.join(dir, name) and os.path.dirname(path)
Join(dir, name) == [dir |-> dir, name |-> name]

DirName(path) == path.dir

\* os.makedirs(d, exist_ok=True): d and its missing ancestors; the empty
\* path raises FileNotFoundError
MakedirsRaises(d) == d = <<>>

Makedirs(ds, d) == ds \cup {SubSeq(d, 1, i) : i \in 1..Len(d)}

NoFile ==
    [source |-> "", frequency |-> "", start |-> YmKey(0, 0),
     end |-> YmKey(0, 0), series |-> <<>>]

\* Validate without the finiteness check of lines 274-276
ValidateNoFinite(s) ==
    IF Len(s) = 0 THEN "EmptySeries"
    ELSE IF Len(s) < MIN_POINTS THEN "InsufficientRows"
    ELSE IF \E i \in 2..Len(s) : StrLe(s[i].date, s[i - 1].date) THEN "NotMonotonic"
    ELSE "none"

\* lines 261-276: the first check that fails, or "none"
Validate(s) ==
    IF Len(s) = 0 THEN "EmptySeries"
    ELSE IF Len(s) < MIN_POINTS THEN "InsufficientRows"
    ELSE IF \E i \in 2..Len(s) : StrLe(s[i].date, s[i - 1].date) THEN "NotMonotonic"
    ELSE IF \E i \in 1..Len(s) : ~IsFinite(s[i].value) THEN "NonFinite"
    ELSE "none"

\* Payload with end taken from the first point
PayloadEndFirst(source, frequency, s) ==
    [source |-> source, frequency |-> frequency,
     start |-> s[1].date, end |-> s[1].date, series |-> s]

\* lines 278-286: the payload
Payload(source, frequency, s) ==
    [source |-> source, frequency |-> frequency,
     start |-> s[1].date, end |-> s[Len(s)].date, series |-> s]

\* write_json with the directory created before the series is validated
WriteJsonMkdirFirst(ds, fs, out_path, source, frequency, s) ==
    LET v == Validate(s)
        made == IF MakedirsRaises(DirName(out_path)) THEN ds
                ELSE Makedirs(ds, DirName(out_path))
    IN  IF v # "none"
        THEN [err |-> v, dirs |-> made, files |-> fs, out |-> <<>>]
        ELSE IF MakedirsRaises(DirName(out_path))
        THEN [err |-> "FileNotFound", dirs |-> ds, files |-> fs, out |-> <<>>]
        ELSE [err |-> "none", dirs |-> made,
              files |-> [fs EXCEPT ![out_path] = Payload(source, frequency, s)],
              out |-> <<[line |-> "Wrote", path |-> out_path]>>]

\* write_json(out_path, source, frequency, series) on the file system
\* (ds, fs): the exception raised or "none", and the file system and the
\* printed line it leaves
WriteJson(ds, fs, out_path, source, frequency, s) ==
    LET v == Validate(s)
    IN  IF v # "none"
        THEN [err |-> v, dirs |-> ds, files |-> fs, out |-> <<>>]
        ELSE IF MakedirsRaises(DirName(out_path))
        THEN [err |-> "FileNotFound", dirs |-> ds, files |-> fs, out |-> <<>>]
        ELSE [err |-> "none",
              dirs |-> Makedirs(ds, DirName(out_path)),
              files |-> [fs EXCEPT ![out_path] = Payload(source, frequency, s)],
              out |-> <<[line |-> "Wrote", path |-> out_path]>>]

(***************************************************************************)
(* Inputs.  An input file is named by a short description (its number of   *)
(* regular monthly rows and the irregular rows that follow them); the      *)
(* operators below expand a description into the rows the readers return.  *)
(***************************************************************************)
\* how far below each minimum length the regular part of an input may be
Slack == 1

\* regular rows run month by month from January 1871
RegYear(i) == 1871 + (i - 1) \div 12

RegMonth(i) == ((i - 1) % 12) + 1

\* year.fraction as Shiller writes it: year + month/100
DateFrac(year, hundredths) == Rat(year * 100 + hundredths, 100)

\* regular Shiller row i: month i counted from January 1871; the
\* price alternates 100, 110 and no dividend is paid
ShillerRegular(i) ==
    [date_frac |-> DateFrac(RegYear(i), RegMonth(i)),
     P |-> Num(IF i % 2 = 1 THEN 100 ELSE 110), D |-> Num(0), CPI |-> Num(12)]

ShillerRow(i, p, d, cpi) ==
    [date_frac |-> DateFrac(RegYear(i), RegMonth(i)), P |-> p, D |-> d, CPI |-> cpi]

ShillerTails ==
    {"none", "text", "empty_cpi", "dup", "div", "neg_last", "neg_mid",
     "inf_p", "inf_date", "frac13"}

\* the irregular rows that follow n regular rows
ShillerTail(tail, n) ==
    CASE tail = "none" -> <<>>
      [] tail = "text" -> <<ShillerRow(n + 1, TextCell, Num(0), Num(12))>>
      [] tail = "empty_cpi" -> <<ShillerRow(n + 1, Num(100), Num(0), EmptyCell)>>
      [] tail = "dup" -> <<ShillerRow(n, Num(120), Num(1), Num(13))>>
      [] tail = "div" -> <<ShillerRow(n + 1, Num(100), Num(5), Num(12))>>
      [] tail = "neg_last" -> <<ShillerRow(n + 1, Num(-5), Num(0), Num(12))>>
      [] tail = "neg_mid" -> <<ShillerRow(n + 1, Num(-5), Num(0), Num(12)),
                               ShillerRow(n + 2, Num(100), Num(0), Num(12))>>
      [] tail = "inf_p" -> <<ShillerRow(n + 1, PosInf, Num(0), PosInf)>>
      [] tail = "inf_date" ->
            <<[date_frac |-> PosInf, P |-> Num(100), D |-> Num(0), CPI |-> Num(12)]>>
      [] tail = "frac13" ->
            <<[date_frac |-> DateFrac(RegYear(1), 13), P |-> Num(100),
               D |-> Num(0), CPI |-> Num(14)]>>

ShillerLens ==
    {SHILLER_MIN_ROWS - d : d \in 0..Slack} \cup {MIN_POINTS - d : d \in 0..Slack}

NoBook == [n |-> 0, tail |-> "none", exists |-> FALSE, hdr |-> FALSE]

ShillerDescs ==
    {[n |-> n, tail |-> t, exists |-> TRUE, hdr |-> TRUE] :
        n \in {SHILLER_MIN_ROWS - d : d \in 0..Slack}, t \in ShillerTails}
    \cup {[n |-> n, tail |-> "none", exists |-> TRUE, hdr |-> TRUE] :
        n \in {MIN_POINTS - d : d \in 0..Slack}}
    \cup {[n |-> SHILLER_MIN_ROWS, tail |-> "none", exists |-> TRUE, hdr |-> FALSE],
          [n |-> 0, tail |-> "text", exists |-> TRUE, hdr |-> TRUE],
          NoBook}

\* the workbooks tried as raw/ie_data.xls of build_all
AllShillerDescs ==
    {[n |-> SHILLER_MIN_ROWS, tail |-> t, exists |-> TRUE, hdr |-> TRUE] :
        t \in {"none", "dup", "neg_last", "inf_p"}}
    \cup {[n |-> SHILLER_MIN_ROWS - d, tail |-> t, exists |-> TRUE, hdr |-> TRUE] :
        d \in 1..Slack, t \in {"none", "empty_cpi"}}
    \cup {[n |-> SHILLER_MIN_ROWS, tail |-> "none", exists |-> TRUE, hdr |-> FALSE],
          NoBook}

\* rows of the sheet "Data" read without a header: a header row in one of
\* several spellings, or a row of notes that carries its row number
HeaderForms == {"full", "padded", "tr_only", "cpi_only", "decoy", "dates"}

HeaderRow(form) ==
    CASE form = "full" -> <<TextC("Date"), TextC("P"), TextC("D"), TextC("E"), TextC("CPI")>>
      [] form = "padded" -> <<TextC(" Date "), TextC(" P"), TextC("d"), NanC, TextC(" Cpi ")>>
      [] form = "tr_only" -> <<TextC("DATE"), TextC("p"), TextC("D")>>
      [] form = "cpi_only" -> <<TextC("date"), NanC, TextC("CPI")>>
      [] form = "decoy" -> <<TextC("Date"), TextC("Price"), TextC("Dividend")>>
      [] form = "dates" -> <<TextC("dates"), TextC("P"), TextC("D"), TextC("CPI")>>

MetaRow(i) == <<NumC(i), TextC("note"), NanC>>

\* the sheet a description names: d.len rows, header rows of the forms d.f1
\* and d.f2 at the (0-based) rows d.h1 and d.h2 when those are in the sheet
SheetRows(d) ==
    [i \in 1..d.len |->
        IF i - 1 = d.h1 THEN HeaderRow(d.f1)
        ELSE IF i - 1 = d.h2 THEN HeaderRow(d.f2)
        ELSE MetaRow(i - 1)]

\* ie_data.xls as published: notes, then the header in row 7
PublishedSheet(hdr) ==
    SheetRows([len |-> 9, h1 |-> IF hdr THEN 7 ELSE -1, f1 |-> "full",
               h2 |-> -1, f2 |-> "full"])

\* the workbook a description names: the sheet as read without a header,
\* and the rows under the header as pd.read_excel returns them
ShillerBook(desc) ==
    [exists |-> desc.exists, sheet |-> PublishedSheet(desc.hdr),
     rows |-> [i \in 1..desc.n |-> ShillerRegular(i)] \o ShillerTail(desc.tail, desc.n)]

\* dated observations (Bank of Canada, FRED, StatCan): one regular
\* observation on the first day of each month from January 1990
CsvDate(i, day) ==
    [y |-> 1990 + (i - 1) \div 12, m |-> ((i - 1) % 12) + 1, d |-> day]

\* a yield of 25 percent in the first three months and of 0 or -1 after
CsvRegular(i) ==
    [date |-> CsvDate(i, 1),
     value |-> Num(IF i <= 3 THEN 25 ELSE IF i % 2 = 0 THEN 0 ELSE -1),
     symbol |-> "USD"]

CsvRow(date, value, symbol) == [date |-> date, value |-> value, symbol |-> symbol]

CsvTails == {"none", "dot", "text", "inf", "two", "nat", "eur"}

CsvTail(tail, n) ==
    CASE tail = "none" -> <<>>
      [] tail = "dot" -> <<CsvRow(CsvDate(n + 1, 1), DotCell, "USD")>>
      [] tail = "text" -> <<CsvRow(CsvDate(n + 1, 1), TextCell, "USD")>>
      [] tail = "inf" -> <<CsvRow(CsvDate(n + 1, 1), PosInf, "USD")>>
      [] tail = "two" -> <<CsvRow(CsvDate(n + 1, 2), Num(100), "USD"),
                           CsvRow(CsvDate(n + 1, 1), Num(25), "USD")>>
      [] tail = "nat" -> <<CsvRow(NaT, Num(3), "USD")>>
      [] tail = "eur" -> <<CsvRow(CsvDate(n + 1, 1), Num(2), "EUR")>>

NoCsv == [n |-> 0, tail |-> "none", ok |-> "missing"]

\* ok: "ok", or what the reader finds wrong before it reads a row
CsvDescs ==
    {[n |-> n, tail |-> t, ok |-> "ok"] :
        n \in {MIN_POINTS - d : d \in 0..Slack}, t \in CsvTails}
    \cup {[n |-> MIN_POINTS, tail |-> "none", ok |-> o] :
        o \in {"missing", "noheader", "nocols"}}
    \cup {[n |-> 0, tail |-> "dot", ok |-> "ok"]}

\* the files tried as raw/DTB3.csv, DGS10.csv, DGS5.csv, DEXCAUS.csv of build_all
AllCsvDescs ==
    {[n |-> MIN_POINTS - d, tail |-> t, ok |-> "ok"] :
        d \in 0..Slack, t \in {"none", "inf"}}
    \cup {[n |-> MIN_POINTS, tail |-> "none", ok |-> o] : o \in {"missing", "nocols"}}

CsvRows(desc) == [i \in 1..desc.n |-> CsvRegular(i)] \o CsvTail(desc.tail, desc.n)

\* lines of the Valet response text: a line that starts the table in one
\* of several spellings, or a metadata line
LineForms == {"plain", "quoted", "semi", "padded", "qsemi", "tab", "upper", "dates"}

BocLine(form, no) ==
    CASE form = "plain" -> TextLine("date", FALSE, ",", FALSE, no)
      [] form = "quoted" -> TextLine("date", TRUE, ",", FALSE, no)
      [] form = "semi" -> TextLine("date", FALSE, ";", FALSE, no)
      [] form = "padded" -> TextLine("date", TRUE, ",", TRUE, no)
      [] form = "qsemi" -> TextLine("date", TRUE, ";", FALSE, no)
      [] form = "tab" -> TextLine("date", FALSE, "tab", FALSE, no)
      [] form = "upper" -> TextLine("Date", FALSE, ",", FALSE, no)
      [] form = "dates" -> TextLine("dates", FALSE, ",", FALSE, no)

MetaLine(no) == TextLine("id", TRUE, ",", FALSE, no)

ResponseLines(d) ==
    [i \in 1..d.len |->
        IF i - 1 = d.h1 THEN BocLine(d.f1, i - 1)
        ELSE IF i - 1 = d.h2 THEN BocLine(d.f2, i - 1)
        ELSE MetaLine(i - 1)]

\* a Valet response: metadata lines, then the quoted header in line 8
ValetLines(hdr) ==
    ResponseLines([len |-> 10, h1 |-> IF hdr THEN 8 ELSE -1, f1 |-> "quoted",
                   h2 |-> -1, f2 |-> "plain"])

\* the Valet response, the FRED file and the StatCan file a description names
BocResp(desc) ==
    [http |-> desc.ok # "missing", lines |-> ValetLines(desc.ok # "noheader"),
     cols |-> desc.ok # "nocols", rows |-> CsvRows(desc)]

FredCsv(desc) ==
    [exists |-> desc.ok # "missing",
     columns |-> IF desc.ok \in {"noheader", "nocols"} THEN <<"DTB3">>
                 ELSE <<"observation_date", "DTB3">>,
     rows |-> CsvRows(desc)]

StatcanCsv(desc) ==
    [has_symbol |-> desc.ok # "noheader", has_date |-> desc.ok # "nocols",
     has_value |-> desc.ok # "nocols", rows |-> CsvRows(desc)]

(***************************************************************************)
(* main: the commands                                                      *)
(***************************************************************************)
DataDir == <<"assets", "data">>

\* the six artifacts of build_all, in the order main builds them
AllFiles ==
    <<"equities_us_tr.json", "cpi_us.json", "cash_tr.json",
      "bonds10y_tr.json", "gic5y_proxy_tr.json", "usdcad_fx.json">>

AllSources ==
    <<"Shiller S&P 500 Total Return (P+D)", "Shiller CPI",
      "FRED DTB3 - 3-Month T-Bill (yield -> index)",
      "FRED GS10 - 10-Year Treasury (yield proxy -> index)",
      "FRED GS5 - 5-Year Treasury (GIC proxy, yield -> index)",
      "FRED DEXCAUS - CAD per USD">>

NumPipelines == Len(AllFiles)

\* out_json arguments tried: a bare file name, and a path build_all also writes
OutPaths == {Join(<<>>, "out.json"), Join(DataDir, AllFiles[1])}

StatcanDefaultOut == Join(DataDir, "usdcad_monthly.json")

Paths ==
    OutPaths \cup {StatcanDefaultOut} \cup {Join(DataDir, AllFiles[k]) : k \in 1..NumPipelines}

NoPath == Join(<<>>, "")

Commands ==
    {[name |-> "boc", agg |-> a, out |-> o, csv_given |-> FALSE] :
        a \in {"mean", "last"}, o \in OutPaths}
    \cup {[name |-> "shiller", agg |-> "", out |-> o, csv_given |-> FALSE] : o \in OutPaths}
    \cup {[name |-> "statcan_fx", agg |-> "", out |-> StatcanDefaultOut, csv_given |-> g] :
            g \in BOOLEAN}
    \cup {[name |-> "build_all", agg |-> "", out |-> Join(DataDir, ""), csv_given |-> FALSE]}

NoCmd == [name |-> "", agg |-> "", out |-> NoPath, csv_given |-> FALSE]

\* an artifact a previous invocation left behind
OldArtifact ==
    Payload("previous", "monthly",
            [i \in 1..MIN_POINTS |-> Point(YmKey(RegYear(i), RegMonth(i)), Num(1))])

Line(text, path) == [line |-> text, path |-> path]

\* the builder returned r: main goes on to write_json, or the exception
\* ends the invocation
Built(r) ==
    IF r.err = "none"
    THEN pc' = "write" /\ series' = r.series /\ err' = "none"
    ELSE pc' = "failed" /\ series' = <<>> /\ err' = r.err

\* args = ap.parse_args()
Invoke ==
    /\ pc = "idle"
    /\ \E c \in Commands :
          /\ cmd' = c
          /\ pc' = IF c.name = "build_all" THEN "begin" ELSE "build"
    /\ UNCHANGED <<step, input, series, dirs, files, stdout, err, fnVars>>

\* line 663
BocBuild ==
    /\ pc = "build" /\ cmd.name = "boc"
    /\ \E desc \in CsvDescs, tie \in TieOrders :
          /\ input' = [input EXCEPT !.csv = desc]
          /\ Built(BocToMonthly(BocResp(desc), cmd.agg, tie))
    /\ UNCHANGED <<cmd, step, dirs, files, stdout, fnVars>>

\* line 666
ShillerBuild ==
    /\ pc = "build" /\ cmd.name = "shiller"
    /\ \E desc \in ShillerDescs, tie \in TieOrders :
          /\ input' = [input EXCEPT !.book = desc]
          /\ Built(ShillerParseMonthlyTR(ShillerBook(desc), tie))
    /\ UNCHANGED <<cmd, step, dirs, files, stdout, fnVars>>

\* lines 669-674: find_statcan_fx_csv when no path is given, then the builder
StatcanBuild ==
    /\ pc = "build" /\ cmd.name = "statcan_fx"
    /\ \E desc \in CsvDescs, tie \in TieOrders :
          /\ input' = [input EXCEPT !.csv = desc]
          /\ IF desc.ok = "missing"
             THEN Built(Raised("FileNotFound")) /\ stdout' = stdout
             ELSE /\ Built(StatcanFxCsvToSeries(StatcanCsv(desc), tie))
                  /\ stdout' = IF cmd.csv_given THEN stdout
                               ELSE Append(stdout, Line("Auto-detected CSV", NoPath))
    /\ UNCHANGED <<cmd, step, dirs, files, fnVars>>

\* lines 682-687: the output directory is created before anything is built
AllBegin ==
    /\ pc = "begin"
    /\ dirs' = Makedirs(dirs, cmd.out.dir)
    /\ stdout' = Append(stdout, Line("Building investment datasets...", NoPath))
    /\ step' = 1
    /\ pc' = "build"
    /\ UNCHANGED <<cmd, input, series, files, err, fnVars>>

Announce(k) == Append(stdout, Line("Building", Join(cmd.out.dir, AllFiles[k])))

\* lines 697-700
AllEquities ==
    /\ pc = "build" /\ cmd.name = "build_all" /\ step = 1
    /\ stdout' = Announce(1)
    /\ \E desc \in AllShillerDescs, tie \in TieOrders :
          /\ input' = [input EXCEPT !.book = desc]
          /\ Built(BuildEquitiesShiller(ShillerBook(desc), tie))
    /\ UNCHANGED <<cmd, step, dirs, files, fnVars>>

\* lines 709-710: the workbook is the one the equities were built from
AllCpi ==
    /\ pc = "build" /\ cmd.name = "build_all" /\ step = 2
    /\ stdout' = Announce(2)
    /\ \E tie \in TieOrders : Built(BuildCpiShiller(ShillerBook(input.book), tie))
    /\ UNCHANGED <<cmd, step, input, dirs, files, fnVars>>

\* lines 719-722
AllCash ==
    /\ pc = "build" /\ cmd.name = "build_all" /\ step = 3
    /\ stdout' = Announce(3)
    /\ \E desc \in AllCsvDescs, tie \in TieOrders :
          /\ input' = [input EXCEPT !.csv = desc]
          /\ Built(BuildCashFred(FredCsv(desc), tie))
    /\ UNCHANGED <<cmd, step, dirs, files, fnVars>>

\* lines 731-734
AllBonds ==
    /\ pc = "build" /\ cmd.name = "build_all" /\ step = 4
    /\ stdout' = Announce(4)
    /\ \E desc \in AllCsvDescs, tie \in TieOrders :
          /\ input' = [input EXCEPT !.csv = desc]
          /\ Built(BuildBonds10yFred(FredCsv(desc), tie))
    /\ UNCHANGED <<cmd, step, dirs, files, fnVars>>

\* lines 743-746
AllGic ==
    /\ pc = "build" /\ cmd.name = "build_all" /\ step = 5
    /\ stdout' = Announce(5)
    /\ \E desc \in AllCsvDescs, tie \in TieOrders :
          /\ input' = [input EXCEPT !.csv = desc]
          /\ Built(BuildGic5yProxyFred(FredCsv(desc), tie))
    /\ UNCHANGED <<cmd, step, dirs, files, fnVars>>

\* lines 755-758
AllFx ==
    /\ pc = "build" /\ cmd.name = "build_all" /\ step = 6
    /\ stdout' = Announce(6)
    /\ \E desc \in AllCsvDescs, tie \in TieOrders :
          /\ input' = [input EXCEPT !.csv = desc]
          /\ Built(BuildUsdcadFxFred(FredCsv(desc), tie))
    /\ UNCHANGED <<cmd, step, dirs, files, fnVars>>

\* the out_path and source main passes to write_json
Target == IF cmd.name = "build_all" THEN Join(cmd.out.dir, AllFiles[step]) ELSE cmd.out

Source ==
    CASE cmd.name = "boc" -> "Bank of Canada Valet API"
      [] cmd.name = "shiller" -> "Yale / Shiller (ie_data.xls)"
      [] cmd.name = "statcan_fx" -> "Statistics Canada (Table 33-10-0163-01)"
      [] cmd.name = "build_all" -> AllSources[step]

\* the write_json calls with a failed write skipped and the batch continued
WriteJsonCallBestEffort ==
    /\ pc = "write"
    /\ LET w == WriteJson(dirs, files, Target, Source, "monthly", series)
           last == cmd.name # "build_all" \/ step = NumPipelines
       IN  /\ dirs' = w.dirs /\ files' = w.files
           /\ err' = IF last THEN w.err ELSE "none"
           /\ stdout' = stdout \o w.out \o
                 (IF cmd.name = "build_all" /\ last /\ w.err = "none"
                  THEN <<Line("All datasets built successfully!", NoPath)>>
                  ELSE <<>>)
           /\ pc' = IF ~last THEN "build" ELSE IF w.err = "none" THEN "done" ELSE "failed"
           /\ step' = IF last THEN step ELSE step + 1
    /\ UNCHANGED <<cmd, input, series, fnVars>>

\* the write_json call of the command (lines 664, 667, 675, 701, 711, 723,
\* 735, 747, 759) and what main does after it returns: the next pipeline
\* of build_all, or the end (lines 766-767 after the sixth)
WriteJsonCall ==
    /\ pc = "write"
    /\ LET w == WriteJson(dirs, files, Target, Source, "monthly", series)
           last == cmd.name # "build_all" \/ step = NumPipelines
       IN  /\ dirs' = w.dirs /\ files' = w.files /\ err' = w.err
           /\ stdout' = stdout \o w.out \o
                 (IF cmd.name = "build_all" /\ last /\ w.err = "none"
                  THEN <<Line("All datasets built successfully!", NoPath)>>
                  ELSE <<>>)
           /\ pc' = IF w.err # "none" THEN "failed" ELSE IF last THEN "done" ELSE "build"
           /\ step' = IF w.err = "none" /\ ~last THEN step + 1 ELSE step
    /\ UNCHANGED <<cmd, input, series, fnVars>>

NoInput == [book |-> NoBook, csv |-> NoCsv]

\* the file system an invocation starts from: nothing there, or the
\* artifacts of a previous invocation at every path
Init ==
    /\ pc = "idle" /\ cmd = NoCmd /\ step = 0 /\ input = NoInput
    /\ series = <<>> /\ stdout = <<>> /\ err = "none"
    /\ \E old \in BOOLEAN :
          /\ dirs = IF old THEN Makedirs({}, DataDir) ELSE {}
          /\ files = [p \in Paths |-> IF old THEN OldArtifact ELSE NoFile]
    /\ fn = "none" /\ arg = <<>> /\ ret = <<>>

Next ==
    \/ Invoke
    \/ BocBuild
    \/ ShillerBuild
    \/ StatcanBuild
    \/ AllBegin
    \/ AllEquities
    \/ AllCpi
    \/ AllCash
    \/ AllBonds
    \/ AllGic
    \/ AllFx
    \/ WriteJsonCall

Spec == Init /\ [][Next]_vars

(***************************************************************************)
(* The builders' functions applied on their own to small inputs            *)
(***************************************************************************)
\* the longest row sequence a function is applied to
MaxRows == 3

\* the longest raw table a cleaning step is applied to
MaxRawRows == 2

SeqsUpTo(S, n) == UNION {[1..k -> S] : k \in 0..n}

MainIdle ==
    /\ pc = "idle" /\ cmd = NoCmd /\ step = 0 /\ input = NoInput
    /\ series = <<>> /\ stdout = <<>> /\ err = "none"
    /\ dirs = {} /\ files = [p \in Paths |-> NoFile]

InitFn == MainIdle /\ fn = "none" /\ arg = <<>> /\ ret = <<>>

\* year.fraction inputs: a year and a fraction in thousandths that the
\* binary float holds well away from a rounding tie, or holds exactly
\* (the hundredths, and the odd eighths .125 .375 .625 .875)
FracYears == {0, 1871, 2024, 9999}

FracThousandths == {10 * h : h \in 0..99} \cup {125, 375, 625, 875}

FracInputs == {Rat(y * 1000 + f, 1000) : y \in FracYears, f \in FracThousandths}

CallFracToYm ==
    /\ fn = "none"
    /\ \E yf \in FracInputs :
          fn' = "frac_to_ym" /\ arg' = yf /\ ret' = FracToYm(yf)
    /\ UNCHANGED mainVars

CallFracToYmCpi ==
    /\ fn = "none"
    /\ \E yf \in FracInputs :
          fn' = "frac_to_ym_cpi" /\ arg' = yf /\ ret' = FracToYmCpi(yf)
    /\ UNCHANGED mainVars

\* cleaned, keyed and sorted price rows: consecutive months from January
\* 1871
Prices == {Num(100), Num(110), Num(0), Num(-5)}

Dividends == {Num(0), Num(5)}

PriceRows ==
    {[i \in 1..Len(q) |-> [ym |-> YmKey(RegYear(i), RegMonth(i)),
                           P |-> q[i][1], D |-> q[i][2]]] :
        q \in SeqsUpTo(Prices \X Dividends, MaxRows) \ {<<>>}}

CallTRCompound ==
    /\ fn = "none"
    /\ \E rows \in PriceRows :
          fn' = "tr_compound" /\ arg' = rows /\ ret' = TRCompound(rows)
    /\ UNCHANGED mainVars

\* frames as read_fred_csv returns them: dated yields in date order
YieldDates == {CsvDate(1, 1), CsvDate(1, 2), CsvDate(2, 1), CsvDate(3, 1)}

Yields == {Num(-5), Num(0), Num(25), Num(100)}

YieldFrames ==
    {q \in SeqsUpTo([date : YieldDates, value : Yields], MaxRows) :
        \A i \in 2..Len(q) : ~TsLt(q[i].date, q[i - 1].date)}

CallYieldIndex ==
    /\ fn = "none"
    /\ \E df \in YieldFrames :
          fn' = "yield_index" /\ arg' = df /\ ret' = FredMonthlyIndex(df, TRUE, FALSE)
    /\ UNCHANGED mainVars

\* raw tables: every kind of cell in every required column
Cells == {Num(3), PosInf, NegInf, NaN, TextCell, EmptyCell, DotCell}

RawDates == {CsvDate(1, 1), NaT}

RawCsvRows == [date : RawDates, value : Cells, symbol : {"USD"}]

RawShillerRows ==
    [date_frac : {DateFrac(RegYear(1), 1), PosInf, TextCell}, P : Cells,
     D : {Num(0), NegInf, EmptyCell}, CPI : {Num(12), PosInf, TextCell}]

CallBocClean ==
    /\ fn = "none"
    /\ \E rows \in SeqsUpTo(RawCsvRows, MaxRawRows) :
          fn' = "boc_clean" /\ arg' = rows /\ ret' = BocClean(rows)
    /\ UNCHANGED mainVars

CallFredClean ==
    /\ fn = "none"
    /\ \E rows \in SeqsUpTo(RawCsvRows, MaxRawRows) :
          fn' = "fred_clean" /\ arg' = rows /\ ret' = FredClean(SelectSeq(rows, NotDot))
    /\ UNCHANGED mainVars

CallStatcanClean ==
    /\ fn = "none"
    /\ \E rows \in SeqsUpTo(RawCsvRows, MaxRawRows) :
          fn' = "statcan_clean" /\ arg' = rows /\ ret' = StatcanClean(rows)
    /\ UNCHANGED mainVars

CallShillerCleanTR ==
    /\ fn = "none"
    /\ \E rows \in SeqsUpTo(RawShillerRows, 1) :
          fn' = "shiller_clean_tr" /\ arg' = rows /\ ret' = ShillerCleanTR(rows)
    /\ UNCHANGED mainVars

CallShillerCleanCPI ==
    /\ fn = "none"
    /\ \E rows \in SeqsUpTo(RawShillerRows, 1) :
          fn' = "shiller_clean_cpi" /\ arg' = rows /\ ret' = ShillerCleanCPI(rows)
    /\ UNCHANGED mainVars

\* cleaned dated observations in any source row order: two days of one
\* month, the next month, and a month of the next year
AggDates == {CsvDate(1, 1), CsvDate(1, 2), CsvDate(2, 1), CsvDate(13, 1)}

AggValues == {Num(1), Num(4)}

AggFrames == SeqsUpTo([date : AggDates, value : AggValues, symbol : {"USD"}], MaxRows)

AggModes == {"mean", "last"}

\* a Valet response, a FRED file and a StatCan file that hold these rows
AggResp(rows) == [http |-> TRUE, lines |-> ValetLines(TRUE), cols |-> TRUE, rows |-> rows]

AggFredCsv(rows) == [exists |-> TRUE, columns |-> <<"DATE", "VALUE">>, rows |-> rows]

AggStatcanCsv(rows) ==
    [has_symbol |-> TRUE, has_date |-> TRUE, has_value |-> TRUE, rows |-> rows]

CallBocToMonthly ==
    /\ fn = "none"
    /\ \E rows \in AggFrames, agg \in AggModes, tie \in TieOrders :
          /\ fn' = "boc_to_monthly"
          /\ arg' = [rows |-> rows, agg |-> agg, tie |-> tie]
          /\ ret' = BocToMonthly(AggResp(rows), agg, tie)
    /\ UNCHANGED mainVars

\* fred_csv_to_monthly_index with yield_to_return=False: use_mean or last
CallFredMonthly ==
    /\ fn = "none"
    /\ \E rows \in AggFrames, agg \in AggModes, tie \in TieOrders :
          /\ fn' = "fred_monthly"
          /\ arg' = [rows |-> rows, agg |-> agg, tie |-> tie]
          /\ ret' = FredCsvToMonthlyIndex(AggFredCsv(rows), FALSE, agg = "mean", tie)
    /\ UNCHANGED mainVars

CallStatcanFx ==
    /\ fn = "none"
    /\ \E rows \in AggFrames, tie \in TieOrders :
          /\ fn' = "statcan_fx"
          /\ arg' = [rows |-> rows, agg |-> "mean", tie |-> tie]
          /\ ret' = StatcanFxCsvToSeries(AggStatcanCsv(rows), tie)
    /\ UNCHANGED mainVars

\* sheets and response texts around the windows: up to two header rows or
\* lines, inside the first 15, at the end of the window, and beyond it
SheetDescs ==
    [len : {0, 12, PREVIEW_ROWS + 2},
     h1 : {-1, 0, PREVIEW_SHOWN - 1, PREVIEW_ROWS - 1, PREVIEW_ROWS}, f1 : HeaderForms,
     h2 : {-1, PREVIEW_SHOWN, PREVIEW_ROWS + 1}, f2 : {"full", "cpi_only"}]

LinesDescs ==
    [len : {0, 12, BOC_HEADER_LINES + 2},
     h1 : {-1, 0, PREVIEW_SHOWN, BOC_HEADER_LINES - 1, BOC_HEADER_LINES}, f1 : LineForms,
     h2 : {-1, PREVIEW_SHOWN + 1, BOC_HEADER_LINES + 1}, f2 : {"plain", "semi"}]

\* the header search of shiller_parse_monthly_tr, and the parse of the
\* same workbook (no rows under the header)
CallLocateTR ==
    /\ fn = "none"
    /\ \E d \in SheetDescs :
          /\ fn' = "locate_tr"
          /\ arg' = SheetRows(d)
          /\ ret' = [loc |-> LocateHeaderTR(SheetRows(d)),
                     built |-> ShillerParseMonthlyTR(
                                  [exists |-> TRUE, sheet |-> SheetRows(d), rows |-> <<>>],
                                  "stable")]
    /\ UNCHANGED mainVars

CallLocateCPI ==
    /\ fn = "none"
    /\ \E d \in SheetDescs :
          /\ fn' = "locate_cpi"
          /\ arg' = SheetRows(d)
          /\ ret' = [loc |-> LocateHeaderCPI(SheetRows(d)),
                     built |-> BuildCpiShiller(
                                  [exists |-> TRUE, sheet |-> SheetRows(d), rows |-> <<>>],
                                  "stable")]
    /\ UNCHANGED mainVars

\* the header search of fetch_boc_csv, and boc_to_monthly on the same
\* response (one observation under the header)
CallLocateBoc ==
    /\ fn = "none"
    /\ \E d \in LinesDescs :
          /\ fn' = "locate_boc"
          /\ arg' = ResponseLines(d)
          /\ ret' = [loc |-> LocateHeaderBoc(ResponseLines(d)),
                     built |-> BocToMonthly(
                                  [http |-> TRUE, lines |-> ResponseLines(d), cols |-> TRUE,
                                   rows |-> <<CsvRegular(1)>>],
                                  "mean", "stable")]
    /\ UNCHANGED mainVars

\* the most columns a header has
MaxCols == 3

ColumnNames == {"DATE", " Date ", "observation_date", "VALUE", "DTB3"}

\* headers as pd.read_csv returns them: no name twice
Headers ==
    {h \in SeqsUpTo(ColumnNames, MaxCols) :
        \A i, j \in 1..Len(h) : h[i] = h[j] => i = j}

CallResolveFredColumns ==
    /\ fn = "none"
    /\ \E h \in Headers :
          fn' = "resolve_fred" /\ arg' = h /\ ret' = ResolveFredColumns(h)
    /\ UNCHANGED mainVars

\* cleaned Shiller rows in any source order, with months that repeat
DupFracs == {DateFrac(1871, 11), DateFrac(1871, 12), DateFrac(1872, 1)}

DupPrices == {Num(100), Num(110)}

DupDividends == {Num(0), Num(5)}

DupTRFrames ==
    SeqsUpTo([date_frac : DupFracs, P : DupPrices, D : DupDividends], MaxRows)

DupCpis == {Num(12), Num(13), Num(14)}

DupCpiFrames == SeqsUpTo([date_frac : DupFracs, CPI : DupCpis], MaxRows)

CallShillerTRSeries ==
    /\ fn = "none"
    /\ \E rows \in DupTRFrames, tie \in TieOrders :
          /\ fn' = "shiller_tr_series"
          /\ arg' = [rows |-> rows, tie |-> tie]
          /\ ret' = ShillerTRSeries(rows, tie)
    /\ UNCHANGED mainVars

CallCpiSeries ==
    /\ fn = "none"
    /\ \E rows \in DupCpiFrames, tie \in TieOrders :
          /\ fn' = "cpi_series"
          /\ arg' = [rows |-> rows, tie |-> tie]
          /\ ret' = CpiSeries(rows, tie)
    /\ UNCHANGED mainVars

NextFn ==
    \/ CallFracToYm
    \/ CallFracToYmCpi
    \/ CallTRCompound
    \/ CallBocClean
    \/ CallFredClean
    \/ CallStatcanClean
    \/ CallShillerCleanTR
    \/ CallShillerCleanCPI
    \/ CallBocToMonthly
    \/ CallFredMonthly
    \/ CallStatcanFx
    \/ CallLocateTR
    \/ CallLocateCPI
    \/ CallLocateBoc
    \/ CallResolveFredColumns
    \/ CallShillerTRSeries
    \/ CallCpiSeries
    \/ CallYieldIndex

SpecFn == InitFn /\ [][NextFn]_vars

(***************************************************************************)
(* Properties                                                              *)
(***************************************************************************)
\* what the artifact contract asks of a series
ValidSeries(s) ==
    /\ Len(s) >= 100
    /\ \A i \in 2..Len(s) : StrLt(s[i - 1].date, s[i].date)
    /\ \A i \in 1..Len(s) : s[i].value.k = "fin"

\* the file at p was written by this invocation
Written(p) == files[p] # NoFile /\ files[p] # OldArtifact

AllPath(k) == Join(cmd.out.dir, AllFiles[k])

\* C1: every artifact that write_json writes, in every command and for
\* every input, holds a series that is non-empty, has at least 100 points,
\* has strictly increasing dates under string comparison and only finite
\* values.
C1_WrittenSeriesValid ==
    [][\A p \in Paths : files'[p] # files[p] => ValidSeries(files'[p].series)]_vars

\* C1: the shiller command has written a total-return artifact of a
\* thousand points or more
C1_Witness ==
    /\ pc = "done" /\ cmd.name = "shiller"
    /\ Written(cmd.out) /\ Len(files[cmd.out].series) >= 1000

\* C2 as stated: the output file and its directory are touched only after
\* the series has been built and has passed validation in write_json, and a
\* failed build or validation changes neither.
C2_Original ==
    [][/\ (files' # files \/ dirs' # dirs) => (pc = "write" /\ ValidSeries(series))
       /\ pc' = "failed" => (files' = files /\ dirs' = dirs)]_vars

\* C2 as amended: the output file is written only by write_json, only after
\* the series has been built and has passed every validation check, and
\* only at the path of that series; a failed build or validation changes no
\* file and no directory.  The directory is created by write_json after
\* validation too, except that build_all creates its output directory
\* first, before any series is built.
C2_WriteOnlyAfterValidation ==
    [][/\ files' # files =>
            /\ pc = "write" /\ ValidSeries(series)
            /\ \A p \in Paths \ {Target} : files'[p] = files[p]
            /\ files'[Target].series = series
       /\ dirs' # dirs =>
            \/ pc = "write" /\ ValidSeries(series)
            \/ pc = "begin" /\ cmd.name = "build_all"
       /\ pc' = "failed" => (files' = files /\ dirs' = dirs)]_vars

\* C2: validation has rejected a series and the previous artifact at the
\* path is still there
C2_Witness ==
    /\ pc = "failed" /\ err = "NonFinite" /\ cmd.name = "shiller"
    /\ files[cmd.out] = OldArtifact

\* C3: in every written envelope start is the date of the first element of
\* series and end is the date of the last.
C3_EnvelopeEnds ==
    \A p \in Paths :
        Written(p) =>
            /\ files[p].start = files[p].series[1].date
            /\ files[p].end = files[p].series[Len(files[p].series)].date

\* C3: an envelope has been written whose first and last dates differ
C3_Witness ==
    \E p \in Paths : Written(p) /\ files[p].start # files[p].end

\* what build_all prints, line by line: the banner, then for each pipeline
\* in turn its announcement and the line write_json prints, then the
\* success message
ExpectedLine(i) ==
    IF i = 1 THEN Line("Building investment datasets...", NoPath)
    ELSE IF i = 2 * NumPipelines + 2 THEN Line("All datasets built successfully!", NoPath)
    ELSE IF i % 2 = 0 THEN Line("Building", AllPath(i \div 2))
    ELSE Line("Wrote", AllPath((i - 1) \div 2))

BatchInOrder ==
    cmd.name = "build_all" =>
        /\ \A i \in 1..Len(stdout) : stdout[i] = ExpectedLine(i)
        /\ \A k \in 1..NumPipelines : Written(AllPath(k)) <=> Len(stdout) >= 2 * k + 1
        /\ pc = "build" => Len(stdout) = 2 * step - 1
        /\ pc = "write" => Len(stdout) = 2 * step
        /\ pc = "failed" =>
              /\ Len(stdout) = 2 * step
              /\ \A k \in step..NumPipelines : ~Written(AllPath(k))
        /\ pc = "done" <=> Len(stdout) = 2 * NumPipelines + 2

\* C4: build_all runs the six pipelines in the order equities, CPI, cash,
\* bonds 10Y, GIC 5Y, FX, each built and written before the next starts;
\* the first failure (missing input, failed build, failed validation) ends
\* the batch: nothing runs after it, no later series is written and the
\* success message is not printed.
C4_BatchAbortsOnFirstFailure ==
    [][pc # "failed" /\ pc # "done" /\ BatchInOrder']_vars

\* C4: the batch failed at the cash pipeline, after equities and CPI were
\* written
C4_Witness ==
    /\ cmd.name = "build_all" /\ pc = "failed" /\ step = 3
    /\ Written(AllPath(1)) /\ Written(AllPath(2)) /\ ~Written(AllPath(3))

\* C9 as stated: a series of fewer than 100 points is never written, and
\* the Shiller workbook passes the equities total-return build, and the CPI
\* build, only when at least 1000 cleaned rows remain for that build.
C9_Original ==
    /\ \A p \in Paths : Written(p) => Len(files[p].series) >= 100
    /\ (pc = "write" /\ (cmd.name = "shiller" \/ (cmd.name = "build_all" /\ step = 1))) =>
          Len(ShillerCleanTR(ShillerBook(input.book).rows)) >= 1000
    /\ (pc = "write" /\ cmd.name = "build_all" /\ step = 2) =>
          Len(ShillerCleanCPI(ShillerBook(input.book).rows)) >= 1000

One == [k |-> "fin", n |-> 1, d |-> 1]

PricesOf(rows) == [t \in 1..Len(rows) |-> rows[t].P.n]

DividendsOf(rows) == [t \in 1..Len(rows) |-> rows[t].D.n]

ValuesOf(points) == [t \in 1..Len(points) |-> points[t].value]

\* C5: over the cleaned rows in ascending month-key order, the total-return
\* index of the first row is 1.0 and the index of every later row t is
\* index[t-1] * (P[t] + D[t]) / P[t-1], one point per row under the row's
\* month key; prices [100, 110] with dividends [0, 0] give [1.0, 1.1] and
\* prices [100, 100] with dividends [0, 5] give a second index of 1.05.
C5_Compounding ==
    fn = "tr_compound" =>
        /\ (\A t \in 1..(Len(arg) - 1) : arg[t].P.n > 0) => ~ret.raised
        /\ ~ret.raised =>
              /\ Len(ret.tr) = Len(arg)
              /\ \A t \in 1..Len(arg) : ret.tr[t].date = arg[t].ym
              /\ ret.tr[1].value = One
              /\ \A t \in 2..Len(arg) :
                    LET v == ret.tr[t].value
                        u == ret.tr[t - 1].value
                    IN  /\ v.k = "fin" /\ u.k = "fin" /\ v.d > 0
                        /\ v.n * u.d * arg[t - 1].P.n
                              = u.n * (arg[t].P.n + arg[t].D.n) * v.d
        /\ (PricesOf(arg) = <<100, 110>> /\ DividendsOf(arg) = <<0, 0>>) =>
              (~ret.raised /\ ValuesOf(ret.tr) = <<One, [k |-> "fin", n |-> 11, d |-> 10]>>)
        /\ (PricesOf(arg) = <<100, 100>> /\ DividendsOf(arg) = <<0, 5>>) =>
              (~ret.raised /\ ret.tr[2].value = [k |-> "fin", n |-> 21, d |-> 20])

\* C5: three rows were compounded with a price change and a dividend
C5_Witness ==
    /\ fn = "tr_compound" /\ ~ret.raised /\ Len(arg) = 3
    /\ PricesOf(arg) = <<100, 110, 110>> /\ DividendsOf(arg) = <<0, 0, 5>>

\* C6 as stated: whenever a row after the first has a non-positive price,
\* compounding raises (on the transition into that price, so also when it
\* is the last row), and no index value that is returned is negative or
\* infinite.
C6_Original ==
    fn = "tr_compound" =>
        /\ (\E t \in 2..Len(arg) : arg[t].P.n <= 0) => ret.raised
        /\ ~ret.raised =>
              \A t \in 1..Len(ret.tr) :
                  ret.tr[t].value.k = "fin" /\ ret.tr[t].value.n >= 0

\* the rows of a frame that fall in month ym
InMonth(df, ym) == SelectSeq(df, LAMBDA r : ToMonth(r.date) = ym)

RECURSIVE SumOf(_)
SumOf(rows) == IF rows = <<>> THEN 0 ELSE rows[1].value.n + SumOf(Tail(rows))

NearestTo(k, p, q) == 2 * Abs(p - k * q) <= q

\* C8: for every non-negative year.fraction input, in both builders'
\* frac_to_ym alike: nothing is raised; the year is the integer part; the
\* month is the fraction times 100 rounded to the nearest integer when that
\* is in 1..12, and otherwise round(fraction * 12) + 1 clamped to 1..12;
\* the month is always in 1..12.  1871.01 gives 1871-01 and 1871.13 falls
\* back (to month 3).
C8_FracToYm ==
    fn \in {"frac_to_ym", "frac_to_ym_cpi"} =>
        LET year == arg.n \div arg.d
            p == arg.n - year * arg.d              \* fraction = p / arg.d
        IN  /\ ~ret.raised
            /\ ret.y = year
            /\ ret.m \in 1..12
            /\ \E k \in 0..100 :
                  /\ NearestTo(k, 100 * p, arg.d)
                  /\ IF k \in 1..12 THEN ret.m = k
                     ELSE \E j \in 0..12 :
                             /\ NearestTo(j, 12 * p, arg.d)
                             /\ ret.m = IF j + 1 > 12 THEN 12 ELSE j + 1
            /\ arg = [k |-> "fin", n |-> 187101, d |-> 100] => (ret.y = 1871 /\ ret.m = 1)
            /\ arg = [k |-> "fin", n |-> 187113, d |-> 100] => (ret.y = 1871 /\ ret.m = 3)
            /\ ret = FracToYm(arg) /\ ret = FracToYmCpi(arg)

\* C8: the CPI builder's frac_to_ym took the fallback for a fraction near
\* the end of the year
C8_Witness ==
    /\ fn = "frac_to_ym_cpi" /\ arg = [k |-> "fin", n |-> 187199, d |-> 100]
    /\ ret.m = 12

\* C10 as stated: in every pipeline's cleaning step, every required field
\* of every row that is kept is finite.
C10_Original ==
    /\ fn \in {"boc_clean", "fred_clean", "statcan_clean"} =>
          \A i \in 1..Len(ret) : ret[i].value.k = "fin"
    /\ fn = "shiller_clean_tr" =>
          \A i \in 1..Len(ret) :
              ret[i].date_frac.k = "fin" /\ ret[i].P.k = "fin" /\ ret[i].D.k = "fin"
    /\ fn = "shiller_clean_cpi" =>
          \A i \in 1..Len(ret) : ret[i].date_frac.k = "fin" /\ ret[i].CPI.k = "fin"

\* the observations of a frame that are the latest of their month
LatestInMonth(df, ym) ==
    {r \in {df[i] : i \in 1..Len(df)} :
        /\ ToMonth(r.date) = ym
        /\ \A i \in 1..Len(df) :
              ToMonth(df[i].date) = ym => ~TsLt(r.date, df[i].date)}

\* C11: monthly aggregation in boc_to_monthly, fred_csv_to_monthly_index
\* without yield conversion and statcan_fx_csv_to_series: for cleaned dated
\* observations in any source row order the output has exactly one point
\* per distinct month key, in strictly ascending key order; under policy
\* mean its value is the arithmetic mean of the month's observations, under
\* policy last it is the value of a chronologically last observation of the
\* month.
C11_MonthlyAggregation ==
    (fn \in {"boc_to_monthly", "fred_monthly", "statcan_fx"} /\ Len(arg.rows) > 0) =>
        LET out == ret.series
        IN  /\ ret.err = "none"
            /\ {out[j].date : j \in 1..Len(out)}
                  = {ToMonth(arg.rows[i].date) : i \in 1..Len(arg.rows)}
            /\ \A j \in 2..Len(out) : StrLt(out[j - 1].date, out[j].date)
            /\ \A j \in 1..Len(out) :
                  LET rows == InMonth(arg.rows, out[j].date)
                      v == out[j].value
                  IN  IF arg.agg = "mean"
                      THEN v.k = "fin" /\ v.d > 0 /\ v.n * Len(rows) = SumOf(rows) * v.d
                      ELSE \E r \in LatestInMonth(arg.rows, out[j].date) : v = r.value

\* C11: policy last on a frame whose latest observation of the month comes
\* first in source order, after which a later month comes before an earlier
C11_Witness ==
    /\ fn = "boc_to_monthly" /\ arg.agg = "last" /\ Len(arg.rows) = 3
    /\ arg.rows[1].date = CsvDate(13, 1)
    /\ arg.rows[2] = [date |-> CsvDate(1, 2), value |-> Num(4), symbol |-> "USD"]
    /\ arg.rows[3] = [date |-> CsvDate(1, 1), value |-> Num(1), symbol |-> "USD"]
    /\ Len(ret.series) = 2 /\ ret.series[1].value = Num(4)

\* the (0-based) rows of the first w rows of a sheet that hold the markers
HeadersWithin(rows, w, cpi) ==
    {i \in 0..(Min(w, Len(rows)) - 1) :
        IF cpi THEN QualifiesCPI(rows[i + 1]) ELSE QualifiesTR(rows[i + 1])}

LinesWithin(lines, w) == {i \in 0..(Min(w, Len(lines)) - 1) : HeaderLine(lines[i + 1])}

\* the locator found the least index of found, or, when found is empty,
\* failed with the first 15 rows or lines shown, and the build failed too
LocatedFirst(found, shown) ==
    IF found # {}
    THEN /\ ret.loc.err = "none"
         /\ ret.loc.header_row \in found
         /\ \A i \in found : ret.loc.header_row <= i
         /\ ret.built.err # "HeaderNotFound"
    ELSE /\ ret.loc.err = "HeaderNotFound"
         /\ ret.loc.shown = shown
         /\ ret.built.err = "HeaderNotFound" /\ ret.built.series = <<>>

\* C12: the header locators of the two Shiller builders and of
\* fetch_boc_csv return the first (lowest-index) row or line that qualifies
\* among the first 50 rows of the sheet, or the first 200 lines of the
\* text; a header beyond the window is not found; when none is found the
\* builder fails with the header-not-found error, which shows the first 15
\* rows or lines scanned, and produces no series.
C12_HeaderLocation ==
    /\ fn = "locate_tr" =>
          LocatedFirst(HeadersWithin(arg, 50, FALSE),
                       [i \in 1..Min(15, Len(arg)) |-> RenderRow(arg[i])])
    /\ fn = "locate_cpi" =>
          LocatedFirst(HeadersWithin(arg, 50, TRUE),
                       [i \in 1..Min(15, Len(arg)) |-> RenderRow(arg[i])])
    /\ fn = "locate_boc" =>
          LocatedFirst(LinesWithin(arg, 200), [i \in 1..Min(15, Len(arg)) |-> arg[i]])

\* C12: a sheet of 52 rows whose only header row is row 50, just beyond the
\* window, was searched and the error shows 15 rows
C12_Witness ==
    /\ fn = "locate_tr" /\ Len(arg) = 52
    /\ QualifiesTR(arg[51]) /\ HeadersWithin(arg, 50, FALSE) = {}
    /\ ret.loc.err = "HeaderNotFound" /\ Len(ret.loc.shown) = 15

\* C13 as stated: for a header with a date column (date or
\* observation_date, case-insensitive after trim) and at least one other
\* column, in any column order, read_fred_csv resolves the date role to a
\* date column and the value role to the first column that is not a date
\* column; the column-not-found error is raised only when the header has no
\* date column or no other column.
C13_Original ==
    fn = "resolve_fred" =>
        LET dates == {i \in 1..Len(arg) : arg[i] \in {"DATE", " Date ", "observation_date"}}
            others == (1..Len(arg)) \ dates
        IN  /\ (dates # {} /\ others # {}) =>
                  /\ ret.err = "none"
                  /\ ret.date_col \in {arg[i] : i \in dates}
                  /\ \E i \in others : ret.value_col = arg[i] /\ \A j \in others : i <= j
            /\ ret.err # "none" => (dates = {} \/ others = {})

\* the month key of a cleaned Shiller row
KeyOf(row) == YmKey(FracToYm(row.date_frac).y, FracToYm(row.date_frac).m)

\* the sorted order of the rows: the source positions by ascending month
\* key, rows of one key in the order the sort left them (source order when
\* tie is "stable", the reverse when "reversed")
SortedOrder(rows, tie) ==
    CHOOSE pi \in [1..Len(rows) -> 1..Len(rows)] :
        /\ \A i, j \in 1..Len(rows) : pi[i] = pi[j] => i = j
        /\ \A i \in 2..Len(rows) :
              \/ StrLt(KeyOf(rows[pi[i - 1]]), KeyOf(rows[pi[i]]))
              \/ /\ KeyOf(rows[pi[i - 1]]) = KeyOf(rows[pi[i]])
                 /\ IF tie = "stable" THEN pi[i - 1] < pi[i] ELSE pi[i - 1] > pi[i]

\* the positions in the sorted order of the first and the last row of a key
FirstAt(rows, pi, key) ==
    CHOOSE i \in 1..Len(rows) :
        KeyOf(rows[pi[i]]) = key /\ \A j \in 1..(i - 1) : KeyOf(rows[pi[j]]) # key

LastAt(rows, pi, key) ==
    CHOOSE i \in 1..Len(rows) :
        KeyOf(rows[pi[i]]) = key /\ \A j \in (i + 1)..Len(rows) : KeyOf(rows[pi[j]]) # key

\* the products of P[t] + D[t] and of P[t-1] over the rows 2..j in sorted
\* order: the index at the j-th row is their quotient
RECURSIVE GainUpTo(_, _, _)
GainUpTo(rows, pi, j) ==
    IF j <= 1 THEN 1
    ELSE (rows[pi[j]].P.n + rows[pi[j]].D.n) * GainUpTo(rows, pi, j - 1)

RECURSIVE BaseUpTo(_, _, _)
BaseUpTo(rows, pi, j) ==
    IF j <= 1 THEN 1 ELSE rows[pi[j - 1]].P.n * BaseUpTo(rows, pi, j - 1)

\* one point per distinct month key of the rows, keys strictly ascending
OnePointPerKey(out, rows) ==
    /\ {out[j].date : j \in 1..Len(out)} = {KeyOf(rows[i]) : i \in 1..Len(rows)}
    /\ \A j \in 2..Len(out) : StrLt(out[j - 1].date, out[j].date)

\* C14: in the price+dividend pipeline, when several cleaned rows map to
\* one month key the recurrence is compounded through every row in sorted
\* order, and the single point of that month carries the index value of
\* the last such row (last write wins); the series has one point per
\* distinct month key, in strictly ascending order.
C14_EquitiesDedupLastWins ==
    (fn = "shiller_tr_series" /\ Len(arg.rows) > 0) =>
        LET rows == arg.rows
            pi == SortedOrder(rows, arg.tie)
            out == ret.series
        IN  /\ ret.err = "none"
            /\ OnePointPerKey(out, rows)
            /\ \A j \in 1..Len(out) :
                  LET last == LastAt(rows, pi, out[j].date)
                      v == out[j].value
                  IN  v = Rat(GainUpTo(rows, pi, last), BaseUpTo(rows, pi, last))

\* C14: two rows of one month with different index values, and a later
\* month; the month's point is not the value of its first row
C14_Witness ==
    /\ fn = "shiller_tr_series" /\ Len(arg.rows) = 3 /\ Len(ret.series) = 2
    /\ KeyOf(arg.rows[1]) = KeyOf(arg.rows[2])
    /\ ret.series[1].value # One
    /\ ret.series[2].value # ret.series[1].value

\* C15: in build_cpi_shiller, when several cleaned rows map to one month
\* key the point of that month carries the CPI of the first such row in
\* sorted order (first write wins); the series has one point per distinct
\* month key, in strictly ascending order.
C15_CpiDedupFirstWins ==
    (fn = "cpi_series" /\ Len(arg.rows) > 0) =>
        LET rows == arg.rows
            pi == SortedOrder(rows, arg.tie)
            out == ret.series
        IN  /\ ret.err = "none"
            /\ OnePointPerKey(out, rows)
            /\ \A j \in 1..Len(out) :
                  out[j].value = rows[pi[FirstAt(rows, pi, out[j].date)]].CPI

\* C15: three rows of one month with three CPI values, kept in source
\* order by the sort; the point carries the first
C15_Witness ==
    /\ fn = "cpi_series" /\ arg.tie = "stable" /\ Len(arg.rows) = 3
    /\ KeyOf(arg.rows[1]) = KeyOf(arg.rows[2]) /\ KeyOf(arg.rows[2]) = KeyOf(arg.rows[3])
    /\ arg.rows[1].CPI = Num(13) /\ arg.rows[2].CPI = Num(12) /\ arg.rows[3].CPI = Num(14)
    /\ ret.series = <<Point(KeyOf(arg.rows[1]), Num(13))>>

====
